---- MODULE Spec2Model ----
(***************************************************************************)
(* PyFileWatcher (py_file_watcher.py): a polling directory watcher.        *)
(* The constructor validates the directory and the pattern; watch() seeds  *)
(* a snapshot with get_files() and then, once per second, runs             *)
(* check_for_deleted_files, check_for_modified_files, check_for_new_files  *)
(* on it, starting one thread per detected change.                         *)
(*                                                                         *)
(* Strings are sequences of characters.  The filesystem is the watched     *)
(* directory plus the process's working directory, against which Python    *)
(* resolves a relative path.  Every loop of the code is modelled one       *)
(* iteration per step, so that the filesystem may change between any two   *)
(* system calls of the watcher.                                            *)
(***************************************************************************)
EXTENDS Integers, Sequences, FiniteSets, Bags, TLC

\* Largest modification time a file may carry (0 stands for "no such file").
MaxTime == 2
\* Number of filesystem operations other processes perform during a run.
MaxFsOps == 2

VARIABLES
    dir_kind,       \* what dir_path names on disk: "missing", "file", "dir"
    file_pattern,   \* self.file_pattern
    result,         \* outcome of __init__: "none" until it ran
    cwdIsWatched,   \* the process's working directory is the watched one
    wd,             \* the watched directory: name -> mtime, 0 if absent
    cd,             \* the working directory when it is another directory
    stop_watching,  \* self.stop_watching
    pc,             \* position of the thread that calls watch()
    files,          \* the snapshot dictionary of watch()
    todo,           \* rest of list(files.items()) in a check_for_* loop
    listing,        \* rest of os.listdir(...) in get_files/check_for_new_files
    cb,             \* bag of callback threads started in the current cycle
    files0,         \* the snapshot as it was when the current cycle began
    opAge,          \* 0: a file changed since the current pass began,
                    \* 1: since the pass before it began, 2: neither
    midCycleOp,     \* a file changed while a scan or a cycle was running
    awaiting,       \* keys reported deleted and not reported created since
    cycles,         \* cycles completed by this watch() call (saturating at 1)
    afterStop,      \* cycles completed after stop() was called (saturating at 2)
    alive,          \* some callback thread has not ended yet
    crashed,        \* a callback raised between this cycle's deletion check
                    \* and its modification check
    flux,           \* per path: what happened to its file since the path was
                    \* last checked (see Touched and Observed)
    fsOps           \* filesystem operations performed so far

vars == <<dir_kind, file_pattern, result, cwdIsWatched, wd, cd, stop_watching,
          pc, files, todo, listing, cb, files0, opAge, midCycleOp,
          awaiting, cycles, afterStop, alive, crashed, flux, fsOps>>

----------------------------------------------------------------------------
(* Strings, names and paths *)

\* The entries a directory may hold.
Names == {<<"d">>, <<"o">>}

\* self.dir_path
dir_path == <<"w">>

\* os.path.join(dir_path, file_name)
Join(dir, file_name) == dir \o <<"/">> \o file_name

IsJoined(path) ==
    /\ Len(path) > Len(dir_path) + 1
    /\ SubSeq(path, 1, Len(dir_path) + 1) = dir_path \o <<"/">>

\* The entry name a path ends in.
NameOf(path) ==
    IF IsJoined(path) THEN SubSeq(path, Len(dir_path) + 2, Len(path)) ELSE path

Paths == Names \cup {Join(dir_path, n) : n \in Names}

\* The directory in which a path is looked up: a path that begins with
\* dir_path in the watched directory, a bare name in the working directory.
InWatched(path) == IsJoined(path) \/ cwdIsWatched

\* os.stat(path).st_mtime, 0 when the call would raise FileNotFoundError
Stat(path) == IF InWatched(path) THEN wd[NameOf(path)] ELSE cd[NameOf(path)]

\* os.path.exists(path)
Exists(path) == Stat(path) # 0

\* os.listdir(self.dir_path)
ListDir == {n \in Names : wd[n] # 0}

----------------------------------------------------------------------------
(* Patterns: a sequence of tokens                                          *)
(*   <<"lit", c>>  the character c          <<"opt", c>>  c?               *)
(*   <<"any">>     .*                       <<"end">>     $                *)
(*   <<"open">>    an unclosed (                                           *)

PatAll == << <<"any">> >>
PatOptD == << <<"opt", "d">>, <<"end">> >>
PatD == << <<"lit", "d">>, <<"any">> >>
PatBad == << <<"open">>, <<"lit", "d">> >>

Patterns == {PatAll, PatOptD, PatD, PatBad}

\* re.compile raises re.error
ReError(pattern) == \E i \in 1..Len(pattern) : pattern[i][1] = "open"

RECURSIVE MatchAt(_, _)
MatchAt(p, s) ==
    IF p = <<>> THEN TRUE
    ELSE LET t == Head(p)
             r == Tail(p)
         IN  CASE t[1] = "lit" -> s # <<>> /\ Head(s) = t[2] /\ MatchAt(r, Tail(s))
               [] t[1] = "opt" -> \/ s # <<>> /\ Head(s) = t[2] /\ MatchAt(r, Tail(s))
                                  \/ MatchAt(r, s)
               [] t[1] = "any" -> \E k \in 0..Len(s) :
                                      MatchAt(r, SubSeq(s, k + 1, Len(s)))
               [] t[1] = "end" -> s = <<>> /\ MatchAt(r, s)
               [] OTHER -> FALSE

\* re.match(pattern, string) is truthy (the pattern compiles and matches
\* a prefix of the string)
ReMatch(pattern, string) == ~ReError(pattern) /\ MatchAt(pattern, string)

\* The filter dropped: every entry is taken to match.
MatchesAll(file_name) == TRUE

\* re.match(self.file_pattern, file_name), the filter of get_files and of
\* check_for_new_files
Matches(file_name) == ReMatch(file_pattern, file_name)

----------------------------------------------------------------------------
(* Construction *)

DirectoryNotFound == "WatchDirectoryError: does not exist"
NotADirectory == "WatchDirectoryError: is not a directory"
InvalidPattern == "WatchDirectoryError: is not valid"
RegexError == "re.error"

\* os.path.exists(dir_path), os.path.isdir(dir_path)
PathExists == dir_kind # "missing"
PathIsDir == dir_kind = "dir"

\* What __init__ does: "ok" or the exception that leaves it.
InitOutcome ==
    IF ~PathExists THEN DirectoryNotFound
    ELSE IF ~PathIsDir THEN NotADirectory
    ELSE IF ReError(file_pattern) THEN RegexError
    ELSE IF ~ReMatch(file_pattern, <<>>) THEN InvalidPattern
    ELSE "ok"

EmptyDict == [p \in {} |-> 0]

Init ==
    /\ dir_kind \in {"missing", "file", "dir"}
    /\ file_pattern \in Patterns
    /\ result = "none"
    /\ cwdIsWatched \in BOOLEAN
    /\ wd \in [Names -> 0..1]
    /\ dir_kind # "dir" => wd = [n \in Names |-> 0]
    /\ cd \in [Names -> 0..1]
    /\ cwdIsWatched => cd = [n \in Names |-> 0]
    /\ cd[<<"o">>] = 0
    /\ stop_watching = FALSE
    /\ pc = "new"
    /\ files = EmptyDict
    /\ todo = {}
    /\ listing = {}
    /\ cb = EmptyBag
    /\ files0 = EmptyDict
    /\ opAge = 2
    /\ midCycleOp = FALSE
    /\ awaiting = {}
    /\ cycles = 0
    /\ afterStop = 0
    /\ alive = FALSE
    /\ crashed = FALSE
    /\ flux = [p \in Paths |-> "steady"]
    /\ fsOps = 0

loopVars == <<files, todo, listing, cb, files0, awaiting, cycles, afterStop>>
cfgVars == <<dir_kind, file_pattern, cwdIsWatched>>
fsVars == <<wd, cd, opAge, midCycleOp, fsOps>>
thrVars == <<alive, crashed>>

\* PyFileWatcher.__init__
Construct ==
    /\ pc = "new"
    /\ result' = InitOutcome
    /\ pc' = IF InitOutcome = "ok" THEN "idle" ELSE "rejected"
    /\ UNCHANGED <<cfgVars, thrVars, fsVars, stop_watching, loopVars, flux>>

----------------------------------------------------------------------------
(* Dictionaries and callback threads *)

\* files[key] = value
Put(dict, key, value) ==
    [p \in DOMAIN dict \cup {key} |-> IF p = key THEN value ELSE dict[p]]

\* del files[key]
Del(dict, key) == [p \in DOMAIN dict \ {key} |-> dict[p]]

\* threading.Thread(target=callback, args=(path,)).start()
Start(kind, path) == cb (+) SetToBag({<<kind, path>>})

Min(a, b) == IF a < b THEN a ELSE b

\* The watch() call is between its first and its last statement.
Running == pc \in {"get_files", "while", "sleep", "check_for_deleted_files",
                   "check_for_modified_files", "check_for_new_files"}

\* An exception left watch(): FileNotFoundError from os.stat.
Raised == pc \in {"raised in get_files", "raised in check_for_modified_files",
                  "raised in check_for_new_files"}

\* A scan or the detection steps of a cycle are being executed.
InPass == pc \in {"get_files", "check_for_deleted_files",
                  "check_for_modified_files", "check_for_new_files"}

\* What a filesystem operation on file_name does to the paths that name the
\* file while watch() runs: a tracked path whose file goes is "gone" and, when
\* the file is there again, "back"; a matching file created unseen by the last
\* listing is "fresh" and, when it goes again before the next one, a "blip".
Touched(file_name, mtime) ==
    [p \in Paths |->
        IF ~Running \/ ~InWatched(p) \/ NameOf(p) # file_name THEN flux[p]
        ELSE IF mtime = 0
             THEN IF p \in DOMAIN files THEN "gone"
                  ELSE IF flux[p] = "fresh" THEN "blip" ELSE "steady"
        ELSE IF wd[file_name] = 0
             THEN IF p \in DOMAIN files THEN "back"
                  ELSE IF IsJoined(p) /\ Matches(file_name) THEN "fresh" ELSE "steady"
        ELSE flux[p]]

\* What a step of watch() does to it: a path that enters or leaves the
\* snapshot is "steady"; the modification check of a path that is "back"
\* makes it "merged" until the cycle ends; the listing of the creation step
\* ends "fresh" and turns a "blip" into "missed" until that step returns.
Observed ==
    [p \in Paths |->
        IF pc' = "get_files" /\ pc # "get_files" THEN "steady"
        ELSE IF (p \in DOMAIN files) # (p \in DOMAIN files') THEN "steady"
        ELSE IF pc = "check_for_modified_files" /\ pc' = pc /\ p \in todo \ todo'
                /\ flux[p] = "back" THEN "merged"
        ELSE IF pc = "check_for_modified_files" /\ pc' = "check_for_new_files"
                /\ flux[p] = "fresh" THEN "steady"
        ELSE IF pc = "check_for_modified_files" /\ pc' = "check_for_new_files"
                /\ flux[p] = "blip" THEN "missed"
        ELSE IF pc = "check_for_new_files" /\ pc' = "while" /\ flux[p] = "missed"
             THEN "steady"
        ELSE IF pc = "while" /\ pc' = "sleep" /\ flux[p] = "merged" THEN "steady"
        ELSE flux[p]]

----------------------------------------------------------------------------
(* PyFileWatcher.stop *)

\* stop() discarding the snapshot as well.
stop_clears ==
    /\ pc \notin {"new", "rejected"}
    /\ ~stop_watching
    /\ stop_watching' = TRUE
    /\ files' = EmptyDict
    /\ UNCHANGED <<cfgVars, thrVars, fsVars, result, pc, todo, listing, cb, files0,
                   awaiting, cycles, afterStop, flux>>

stop ==
    /\ pc \notin {"new", "rejected"}
    /\ ~stop_watching
    /\ stop_watching' = TRUE
    /\ UNCHANGED <<cfgVars, thrVars, fsVars, result, pc, loopVars, flux>>

----------------------------------------------------------------------------
(* PyFileWatcher.watch and the functions it calls *)

\* watch() clearing the stop request when it starts.
watch_restart ==
    /\ pc \in {"idle", "returned"}
    /\ pc' = "get_files"
    /\ stop_watching' = FALSE
    /\ listing' = ListDir
    /\ files' = EmptyDict
    /\ files0' = EmptyDict
    /\ todo' = {}
    /\ cb' = EmptyBag
    /\ awaiting' = {}
    /\ cycles' = 0
    /\ afterStop' = 0
    /\ opAge' = 2
    /\ UNCHANGED <<cfgVars, thrVars, result, wd, cd, midCycleOp, fsOps>>
    /\ flux' = Observed

\* watch() is called: get_files() starts and lists the directory.
watch ==
    /\ pc \in {"idle", "returned"}
    /\ pc' = "get_files"
    /\ listing' = ListDir
    /\ files' = EmptyDict
    /\ files0' = EmptyDict
    /\ todo' = {}
    /\ cb' = EmptyBag
    /\ awaiting' = {}
    /\ cycles' = 0
    /\ afterStop' = 0
    /\ opAge' = 2
    /\ UNCHANGED <<cfgVars, thrVars, result, stop_watching, wd, cd, midCycleOp, fsOps>>
    /\ flux' = Observed

\* One iteration of the for loop of get_files.
get_files_item(file_name) ==
    /\ pc = "get_files"
    /\ file_name \in listing
    /\ IF ~Matches(file_name)
       THEN /\ listing' = listing \ {file_name}
            /\ UNCHANGED <<pc, files>>
       ELSE LET file_path == Join(dir_path, file_name)
            IN  IF ~Exists(file_path)
                THEN /\ pc' = "raised in get_files"
                     /\ listing' = {}
                     /\ UNCHANGED files
                ELSE /\ files' = Put(files, file_name, Stat(file_path))
                     /\ listing' = listing \ {file_name}
                     /\ UNCHANGED pc
    /\ UNCHANGED <<cfgVars, thrVars, fsVars, result, stop_watching, todo, cb, files0,
                   awaiting, cycles, afterStop>>
    /\ flux' = Observed

\* get_files returns the dictionary to watch().
get_files_return ==
    /\ pc = "get_files"
    /\ listing = {}
    /\ pc' = "while"
    /\ UNCHANGED <<cfgVars, thrVars, fsVars, result, stop_watching, loopVars, flux>>

\* The flag tested before the first iteration only.
while_test_once ==
    /\ pc = "while"
    /\ IF stop_watching /\ cycles = 0
       THEN /\ pc' = "returned"
            /\ UNCHANGED <<cb, files0>>
       ELSE /\ pc' = "sleep"
            /\ cb' = EmptyBag
            /\ files0' = files
    /\ UNCHANGED <<cfgVars, thrVars, fsVars, result, stop_watching, files, todo, listing,
                   awaiting, cycles, afterStop>>
    /\ flux' = Observed

\* while not self.stop_watching
while_test ==
    /\ pc = "while"
    /\ IF stop_watching
       THEN /\ pc' = "returned"
            /\ UNCHANGED <<cb, files0>>
       ELSE /\ pc' = "sleep"
            /\ cb' = EmptyBag
            /\ files0' = files
    /\ UNCHANGED <<cfgVars, thrVars, fsVars, result, stop_watching, files, todo, listing,
                   awaiting, cycles, afterStop>>
    /\ flux' = Observed

\* The cycle joining the callback threads before it goes on.
sleep_join ==
    /\ pc = "sleep"
    /\ ~alive
    /\ pc' = "check_for_deleted_files"
    /\ todo' = DOMAIN files
    /\ opAge' = Min(opAge + 1, 2)
    /\ UNCHANGED <<cfgVars, thrVars, result, stop_watching, wd, cd, midCycleOp, fsOps,
                   files, listing, cb, files0, awaiting, cycles, afterStop>>
    /\ flux' = Observed

\* time.sleep(1) ends and check_for_deleted_files copies the items.
sleep ==
    /\ pc = "sleep"
    /\ pc' = "check_for_deleted_files"
    /\ todo' = DOMAIN files
    /\ opAge' = Min(opAge + 1, 2)
    /\ UNCHANGED <<cfgVars, thrVars, result, stop_watching, wd, cd, midCycleOp, fsOps,
                   files, listing, cb, files0, awaiting, cycles, afterStop>>
    /\ flux' = Observed

\* The iteration starting on-deleted without removing the entry.
check_for_deleted_files_item_keep(file_path) ==
    /\ pc = "check_for_deleted_files"
    /\ file_path \in todo
    /\ todo' = todo \ {file_path}
    /\ IF ~Exists(file_path)
       THEN /\ cb' = Start("deleted", file_path)
            /\ awaiting' = awaiting \cup {file_path}
            /\ UNCHANGED files
       ELSE UNCHANGED <<files, cb, awaiting>>
    /\ alive' = (alive \/ cb' # cb)
    /\ UNCHANGED <<cfgVars, crashed, fsVars, result, stop_watching, pc, listing, files0,
                   cycles, afterStop>>
    /\ flux' = Observed

\* One iteration of the for loop of check_for_deleted_files.
check_for_deleted_files_item(file_path) ==
    /\ pc = "check_for_deleted_files"
    /\ file_path \in todo
    /\ todo' = todo \ {file_path}
    /\ IF ~Exists(file_path)
       THEN /\ files' = Del(files, file_path)
            /\ cb' = Start("deleted", file_path)
            /\ awaiting' = awaiting \cup {file_path}
       ELSE UNCHANGED <<files, cb, awaiting>>
    /\ alive' = (alive \/ cb' # cb)
    /\ UNCHANGED <<cfgVars, crashed, fsVars, result, stop_watching, pc, listing, files0,
                   cycles, afterStop>>
    /\ flux' = Observed

\* The modification step given the items as they were before the deletions.
check_for_deleted_files_return_stale ==
    /\ pc = "check_for_deleted_files"
    /\ todo = {}
    /\ pc' = "check_for_modified_files"
    /\ todo' = DOMAIN files0
    /\ UNCHANGED <<cfgVars, thrVars, fsVars, result, stop_watching, files, listing, cb,
                   files0, awaiting, cycles, afterStop>>
    /\ flux' = Observed

\* check_for_deleted_files returns; check_for_modified_files copies the items.
check_for_deleted_files_return ==
    /\ pc = "check_for_deleted_files"
    /\ todo = {}
    /\ pc' = "check_for_modified_files"
    /\ todo' = DOMAIN files
    /\ UNCHANGED <<cfgVars, thrVars, fsVars, result, stop_watching, files, listing, cb,
                   files0, awaiting, cycles, afterStop>>
    /\ flux' = Observed

\* The iteration comparing with > instead of !=.
check_for_modified_files_item_newer(file_path) ==
    /\ pc = "check_for_modified_files"
    /\ file_path \in todo
    /\ IF ~Exists(file_path)
       THEN /\ pc' = "raised in check_for_modified_files"
            /\ todo' = {}
            /\ UNCHANGED <<files, cb>>
       ELSE /\ todo' = todo \ {file_path}
            /\ UNCHANGED pc
            /\ IF Stat(file_path) > files[file_path]
               THEN /\ files' = Put(files, file_path, Stat(file_path))
                    /\ cb' = Start("modified", file_path)
               ELSE UNCHANGED <<files, cb>>
    /\ alive' = (alive \/ cb' # cb)
    /\ UNCHANGED <<cfgVars, crashed, fsVars, result, stop_watching, listing, files0,
                   awaiting, cycles, afterStop>>
    /\ flux' = Observed

\* The iteration with a missing file skipped instead of os.stat raising.
check_for_modified_files_item_skip(file_path) ==
    /\ pc = "check_for_modified_files"
    /\ file_path \in todo
    /\ todo' = todo \ {file_path}
    /\ IF Exists(file_path) /\ Stat(file_path) # files[file_path]
       THEN /\ files' = Put(files, file_path, Stat(file_path))
            /\ cb' = Start("modified", file_path)
       ELSE UNCHANGED <<files, cb>>
    /\ alive' = (alive \/ cb' # cb)
    /\ UNCHANGED <<cfgVars, crashed, fsVars, result, stop_watching, pc, listing, files0,
                   awaiting, cycles, afterStop>>
    /\ flux' = Observed

\* One iteration of the for loop of check_for_modified_files.
check_for_modified_files_item(file_path) ==
    /\ pc = "check_for_modified_files"
    /\ file_path \in todo
    /\ IF ~Exists(file_path)
       THEN /\ pc' = "raised in check_for_modified_files"
            /\ todo' = {}
            /\ UNCHANGED <<files, cb>>
       ELSE /\ todo' = todo \ {file_path}
            /\ UNCHANGED pc
            /\ IF Stat(file_path) # files[file_path]
               THEN /\ files' = Put(files, file_path, Stat(file_path))
                    /\ cb' = Start("modified", file_path)
               ELSE UNCHANGED <<files, cb>>
    /\ alive' = (alive \/ cb' # cb)
    /\ UNCHANGED <<cfgVars, crashed, fsVars, result, stop_watching, listing, files0,
                   awaiting, cycles, afterStop>>
    /\ flux' = Observed

\* check_for_modified_files returns; check_for_new_files lists the directory.
check_for_modified_files_return ==
    /\ pc = "check_for_modified_files"
    /\ todo = {}
    /\ pc' = "check_for_new_files"
    /\ listing' = ListDir
    /\ crashed' = FALSE
    /\ UNCHANGED <<cfgVars, alive, fsVars, result, stop_watching, files, todo, cb,
                   files0, awaiting, cycles, afterStop>>
    /\ flux' = Observed

\* The iteration storing the timestamp of every matching entry, known or not.
check_for_new_files_item_refresh(file_name) ==
    /\ pc = "check_for_new_files"
    /\ file_name \in listing
    /\ LET file_path == Join(dir_path, file_name)
       IN  IF ~Matches(file_name)
           THEN /\ listing' = listing \ {file_name}
                /\ UNCHANGED <<pc, files, cb, awaiting>>
           ELSE IF ~Exists(file_path)
                THEN /\ pc' = "raised in check_for_new_files"
                     /\ listing' = {}
                     /\ UNCHANGED <<files, cb, awaiting>>
                ELSE /\ files' = Put(files, file_path, Stat(file_path))
                     /\ IF file_path \in DOMAIN files
                        THEN UNCHANGED <<cb, awaiting>>
                        ELSE /\ cb' = Start("created", file_path)
                             /\ awaiting' = awaiting \ {file_path}
                     /\ listing' = listing \ {file_name}
                     /\ UNCHANGED pc
    /\ alive' = (alive \/ cb' # cb)
    /\ UNCHANGED <<cfgVars, crashed, fsVars, result, stop_watching, todo, files0,
                   cycles, afterStop>>
    /\ flux' = Observed

\* One iteration of the for loop of check_for_new_files.
check_for_new_files_item(file_name) ==
    /\ pc = "check_for_new_files"
    /\ file_name \in listing
    /\ LET file_path == Join(dir_path, file_name)
       IN  IF ~Matches(file_name) \/ file_path \in DOMAIN files
           THEN /\ listing' = listing \ {file_name}
                /\ UNCHANGED <<pc, files, cb, awaiting>>
           ELSE IF ~Exists(file_path)
                THEN /\ pc' = "raised in check_for_new_files"
                     /\ listing' = {}
                     /\ UNCHANGED <<files, cb, awaiting>>
                ELSE /\ files' = Put(files, file_path, Stat(file_path))
                     /\ cb' = Start("created", file_path)
                     /\ awaiting' = awaiting \ {file_path}
                     /\ listing' = listing \ {file_name}
                     /\ UNCHANGED pc
    /\ alive' = (alive \/ cb' # cb)
    /\ UNCHANGED <<cfgVars, crashed, fsVars, result, stop_watching, todo, files0,
                   cycles, afterStop>>
    /\ flux' = Observed

\* check_for_new_files returns: the cycle is complete.
check_for_new_files_return ==
    /\ pc = "check_for_new_files"
    /\ listing = {}
    /\ pc' = "while"
    /\ cycles' = Min(cycles + 1, 1)
    /\ afterStop' = IF stop_watching THEN Min(afterStop + 1, 2)
                    ELSE afterStop
    /\ UNCHANGED <<cfgVars, thrVars, fsVars, result, stop_watching, files, todo, listing,
                   cb, files0, awaiting>>
    /\ flux' = Observed

\* The steps of the thread that runs watch().
Loop ==
    \/ \E file_name \in Names : get_files_item(file_name)
    \/ get_files_return
    \/ while_test
    \/ sleep
    \/ \E file_path \in Paths : check_for_deleted_files_item(file_path)
    \/ check_for_deleted_files_return
    \/ \E file_path \in Paths : check_for_modified_files_item(file_path)
    \/ check_for_modified_files_return
    \/ \E file_name \in Names : check_for_new_files_item(file_name)
    \/ check_for_new_files_return

----------------------------------------------------------------------------
(* Other processes change the watched directory *)

\* A watcher notified of every operation, starting a callback for each.
FsStep_notify(file_name, mtime) ==
    /\ pc \notin {"new", "rejected"}
    /\ ~Raised
    /\ fsOps < MaxFsOps
    /\ fsOps' = fsOps + 1
    /\ wd' = [wd EXCEPT ![file_name] = mtime]
    /\ opAge' = IF Matches(file_name) THEN 0 ELSE opAge
    /\ midCycleOp' = (midCycleOp \/ (InPass /\ Matches(file_name)))
    /\ flux' = Touched(file_name, mtime)
    /\ cb' = IF Running /\ Matches(file_name)
             THEN Start(IF mtime = 0 THEN "deleted"
                        ELSE IF wd[file_name] = 0 THEN "created" ELSE "modified",
                        Join(dir_path, file_name))
             ELSE cb
    /\ alive' = (alive \/ cb' # cb)
    /\ UNCHANGED <<cfgVars, crashed, cd, result, stop_watching, pc, files, todo,
                   listing, files0, awaiting, cycles, afterStop>>

\* Another process sets the modification time of file_name (0: removes it).
FsStep(file_name, mtime) ==
    /\ pc \notin {"new", "rejected"}
    /\ ~Raised
    /\ fsOps < MaxFsOps
    /\ fsOps' = fsOps + 1
    /\ wd' = [wd EXCEPT ![file_name] = mtime]
    /\ opAge' = IF Matches(file_name) THEN 0 ELSE opAge
    /\ midCycleOp' = (midCycleOp \/ (InPass /\ Matches(file_name)))
    /\ flux' = Touched(file_name, mtime)
    /\ UNCHANGED <<cfgVars, thrVars, cd, result, stop_watching, pc, loopVars>>

FsCreate ==
    \E file_name \in Names, mtime \in 1..MaxTime :
        wd[file_name] = 0 /\ FsStep(file_name, mtime)

FsModify ==
    \E file_name \in Names, mtime \in 1..MaxTime :
        wd[file_name] \notin {0, mtime} /\ FsStep(file_name, mtime)

FsDelete ==
    \E file_name \in Names : wd[file_name] # 0 /\ FsStep(file_name, 0)

----------------------------------------------------------------------------
(* Callback threads: the target of a started thread runs on its own and    *)
(* ends by returning or by raising; an exception ends that thread only.    *)

\* A callback returns; other callback threads may still be running.
callback_return ==
    /\ alive
    /\ alive' \in BOOLEAN
    /\ UNCHANGED <<cfgVars, fsVars, result, stop_watching, pc, loopVars, flux, crashed>>

\* The exception of a callback reaching the thread that runs watch().
callback_raise_propagates ==
    /\ alive
    /\ alive' \in BOOLEAN
    /\ crashed' = (crashed \/ (pc = "check_for_deleted_files" /\ todo = {}))
    /\ pc' = IF Running THEN "raised in check_for_new_files" ELSE pc
    /\ UNCHANGED <<cfgVars, fsVars, result, stop_watching, loopVars, flux>>

\* A callback raises; the exception ends its thread.  crashed records an
\* exception raised when check_for_deleted_files has finished its loop, until
\* check_for_modified_files returns.
callback_raise ==
    /\ alive
    /\ alive' \in BOOLEAN
    /\ crashed' = (crashed \/ (pc = "check_for_deleted_files" /\ todo = {}))
    /\ UNCHANGED <<cfgVars, fsVars, result, stop_watching, pc, loopVars, flux>>

----------------------------------------------------------------------------

Next ==
    \/ Construct
    \/ stop
    \/ watch
    \/ Loop
    \/ callback_return
    \/ callback_raise
    \/ FsCreate
    \/ FsModify
    \/ FsDelete

Spec == Init /\ [][Next]_vars

\* The thread that runs watch() is scheduled as long as it has a step to take.
FairSpec == Spec /\ WF_vars(Loop)
----------------------------------------------------------------------------
(* Properties *)

\* The paths of the matching entries that exist in the watched directory.
ExistingMatches == {Join(dir_path, n) : n \in {m \in Names : wd[m] # 0 /\ Matches(m)}}

\* A cycle has just been completed and no matching file changed since its
\* detection steps began.
EndOfQuietCycle == pc = "while" /\ cycles >= 1 /\ opAge >= 1

\* Number of callbacks of one kind started in the current cycle for the
\* paths that end in file_name.
Started(kind, file_name) ==
    LET RECURSIVE Sum(_)
        Sum(S) == IF S = {} THEN 0
                  ELSE LET p == CHOOSE q \in S : TRUE
                       IN  CopiesIn(<<kind, p>>, cb) + Sum(S \ {p})
    IN  Sum({p \in Paths : NameOf(p) = file_name})

\* C1: construction with an existing directory and a pattern that compiles
\* succeeds, whether or not the pattern matches the empty string.
C1_ValidPatternAccepted ==
    (result # "none" /\ PathIsDir /\ ~ReError(file_pattern)) => result = "ok"

\* C2: construction fails with DirectoryNotFound when the path does not
\* exist, with NotADirectory when it exists and is no directory, and with
\* InvalidPattern when the pattern does not compile; the first violated
\* check in the order exists, is-directory, pattern decides the error, and
\* the three errors differ.
C2_ErrorKinds ==
    /\ Cardinality({DirectoryNotFound, NotADirectory, InvalidPattern}) = 3
    /\ result # "none" =>
          /\ ~PathExists => result = DirectoryNotFound
          /\ (PathExists /\ ~PathIsDir) => result = NotADirectory
          /\ (PathIsDir /\ ReError(file_pattern)) => result = InvalidPattern

\* C3: when files changed only between cycles, at the end of every completed
\* cycle the snapshot's keys are exactly the paths of the matching files
\* that exist in the watched directory.
C3_KeysAreExistingMatches ==
    (EndOfQuietCycle /\ ~midCycleOp) => DOMAIN files = ExistingMatches

\* C4: a cycle that runs when no matching file changed since the previous
\* pass over the directory (the initial scan or the previous cycle) began
\* starts no callback and leaves the snapshot as it was.
C4_Idempotent ==
    ((pc \in {"check_for_deleted_files", "check_for_modified_files",
              "check_for_new_files"} \/ (pc = "while" /\ cycles >= 1))
       /\ opAge = 2)
    => (cb = EmptyBag /\ files = files0)

\* C5: every snapshot key is the watched directory joined with the name of
\* a matching entry, whichever of get_files and check_for_new_files stored it.
C5_KeysAreJoined ==
    \A p \in DOMAIN files : \E n \in Names : Matches(n) /\ p = Join(dir_path, n)
\* C6: a tracked path that a cycle found deleted is reported by one
\* on-deleted; it is then no snapshot key, so no on-modified and no second
\* on-deleted follows for it, and once a cycle has seen the path present
\* again, on-created has been started for it.
C6_DeletedThenCreated ==
    \A p \in awaiting :
        /\ p \notin DOMAIN files
        /\ ~(EndOfQuietCycle /\ Exists(p))

\* The snapshot held an entry for this file when the current cycle began.
Tracked0(file_name) == \E p \in DOMAIN files0 : NameOf(p) = file_name

\* C7: a change to a matching file that persists through a full cycle has
\* been reported, when that cycle ends, by exactly one callback of its kind:
\* on-created for a file the snapshot did not hold, on-modified for a held
\* file whose timestamp differs, on-deleted for a held file that is gone.
C7_ChangeReportedOnce ==
    EndOfQuietCycle =>
        \A n \in {m \in Names : Matches(m)} :
            LET created == Started("created", n)
                modified == Started("modified", n)
                deleted == Started("deleted", n)
            IN  /\ (wd[n] # 0 /\ ~Tracked0(n))
                      => (created = 1 /\ modified = 0 /\ deleted = 0)
                /\ (wd[n] # 0 /\ Tracked0(n)
                      /\ \A p \in DOMAIN files0 : NameOf(p) = n => files0[p] # wd[n])
                      => (modified = 1 /\ created = 0 /\ deleted = 0)
                /\ (wd[n] = 0 /\ Tracked0(n))
                      => (deleted = 1 /\ created = 0 /\ modified = 0)

\* C8: an entry whose name does not satisfy the pattern is never a snapshot
\* key and no callback is ever started for it.
C8_NonMatchingIgnored ==
    /\ \A p \in DOMAIN files : ReMatch(file_pattern, NameOf(p))
    /\ \A e \in BagToSet(cb) : ReMatch(file_pattern, NameOf(e[2]))

\* A cycle saw a non-matching entry from beginning to end while it started
\* callbacks for matching ones.
C8_Witness ==
    /\ EndOfQuietCycle
    /\ cb # EmptyBag
    /\ \E n \in Names : wd[n] # 0 /\ ~ReMatch(file_pattern, n)

\* C9: stop() only requests termination.  watch() returns only from the
\* test at the top of an iteration, and only when the flag is set; at most
\* one iteration is completed after stop() was called; and when the thread
\* of watch() keeps being scheduled, a running watch() ends after stop().
C9_StopAtTopOnly ==
    /\ [][(pc' = "returned" /\ pc # "returned")
             => (pc = "while" /\ stop_watching)]_vars
    /\ [](afterStop <= 1)
    /\ (stop_watching /\ Running) ~> ~Running

\* stop() was called during an iteration, which was completed before
\* watch() returned.
C9_Witness == pc = "returned" /\ afterStop = 1

\* C10: when a tracked file is gone at the moment the modification step
\* reads its timestamp, the step raises: it goes on only past files that
\* exist, it is left either at its end or by the exception, and after an
\* exception nothing more runs, the snapshot stays as it is and no callback
\* is started.
C10_ModificationRaceIsFatal ==
    [][/\ (pc = "check_for_modified_files" /\ pc' = pc /\ todo' # todo)
            => \A p \in todo \ todo' : Exists(p)
       /\ (pc = "check_for_modified_files" /\ pc' # pc)
            => \/ pc' = "check_for_new_files" /\ todo = {}
               \/ /\ pc' = "raised in check_for_modified_files"
                  /\ \E p \in todo : ~Exists(p)
                  /\ files' = files /\ cb' = cb
       /\ Raised => (pc' = pc /\ files' = files /\ cb' = cb)]_vars

\* The modification step found a file missing that the deletion step of the
\* same cycle had found present.
C10_Witness == pc = "raised in check_for_modified_files"
\* This step starts a callback of the kind for the path.
StartedNow(kind, path) == CopiesIn(<<kind, path>>, cb') > CopiesIn(<<kind, path>>, cb)

\* C11: in every cycle the steps run in the order deletion, modification,
\* creation on the one snapshot: on-deleted is started only in the deletion
\* step, on-modified only in the modification step, on-created only in the
\* creation step, the steps follow each other in that order, and the
\* modification step examines no path that the deletion step removed.
C11_FixedStepOrder ==
    /\ [][/\ \A p \in Paths :
                /\ StartedNow("deleted", p) => pc = "check_for_deleted_files"
                /\ StartedNow("modified", p) => pc = "check_for_modified_files"
                /\ StartedNow("created", p) => pc = "check_for_new_files"
          /\ pc = "sleep" => pc' \in {pc, "check_for_deleted_files"}
          /\ pc = "check_for_deleted_files"
                => pc' \in {pc, "check_for_modified_files"}
          /\ pc = "check_for_modified_files"
                => pc' \in {pc, "check_for_new_files",
                            "raised in check_for_modified_files"}
          /\ pc = "check_for_new_files"
                => pc' \in {pc, "while", "raised in check_for_new_files"}]_vars
    /\ [](pc = "check_for_modified_files" =>
             \A p \in todo : p \in DOMAIN files /\ CopiesIn(<<"deleted", p>>, cb) = 0)

\* One cycle started an on-deleted, an on-modified and an on-created.
C11_Witness ==
    /\ pc = "while" /\ cycles >= 1
    /\ \A kind \in {"deleted", "modified", "created"} :
          \E p \in Paths : CopiesIn(<<kind, p>>, cb) = 1

\* C12: for each tracked path the modification step starts on-modified
\* exactly when the timestamp it reads differs from the stored one, whether
\* it is later or earlier, and then stores the timestamp read; for an equal
\* timestamp it changes nothing.
C12_ModifiedIffDiffers ==
    [][(pc = "check_for_modified_files" /\ pc' = pc /\ todo' # todo)
          => \A p \in todo \ todo' :
                /\ p \in DOMAIN files' /\ files'[p] = Stat(p)
                /\ (files[p] # Stat(p))
                      <=> (CopiesIn(<<"modified", p>>, cb')
                              = CopiesIn(<<"modified", p>>, cb) + 1)
                /\ (files[p] = Stat(p)) => (files' = files /\ cb' = cb)]_vars

\* The modification step reported a timestamp that moved backward.
C12_Witness ==
    \E p \in DOMAIN files \cap DOMAIN files0 :
        /\ files[p] < files0[p]
        /\ CopiesIn(<<"modified", p>>, cb) = 1

\* C13: the creation step leaves every path that is already a key as it is,
\* timestamp included, and starts nothing for it, even when the file's
\* timestamp on disk differs; a cycle that then sees the different timestamp
\* starts exactly one on-modified for the path and stores the timestamp.
C13_CreationLeavesKnownPaths ==
    /\ [][pc = "check_for_new_files"
             => \A p \in DOMAIN files :
                   /\ p \in DOMAIN files' /\ files'[p] = files[p]
                   /\ \A kind \in {"deleted", "modified", "created"} :
                         ~StartedNow(kind, p)]_vars
    /\ [](EndOfQuietCycle =>
             \A p \in DOMAIN files0 :
                 (Exists(p) /\ Stat(p) # files0[p])
                    => /\ CopiesIn(<<"modified", p>>, cb) = 1
                       /\ p \in DOMAIN files /\ files[p] = Stat(p))

\* The creation step has gone through the whole listing while the timestamp
\* of a known path differs on disk from the stored one.
C13_Witness ==
    /\ pc = "check_for_new_files"
    /\ listing = {}
    /\ \E p \in DOMAIN files : IsJoined(p) /\ Stat(p) \notin {0, files[p]}

\* C17: the stop request is never cleared, watch() returns only with the
\* request set, and once it is set a watch() call that is not inside an
\* iteration never enters one and starts no callback: a watch() call made
\* after stop() runs zero iterations.
C17_StoppedIsTerminal ==
    /\ [][/\ stop_watching => stop_watching'
          /\ (stop_watching /\ pc \in {"idle", "returned", "get_files", "while"})
                => /\ pc' \in {"idle", "returned", "get_files", "while",
                               "raised in get_files"}
                   /\ cb' \in {cb, EmptyBag}]_vars
    /\ [](pc = "returned" => stop_watching)

\* A watch() call made with the request set returned without an iteration
\* although a matching file was there to report.
C17_Witness ==
    /\ pc = "returned" /\ cycles = 0 /\ cb = EmptyBag
    /\ files # EmptyDict

\* C18: on-deleted and on-modified are started only for a path that is a
\* snapshot key, on-created only for a path that is not; on-deleted removes
\* the key and on-created adds it, and within a cycle a key is added or
\* removed only together with that callback, so that on-created and
\* on-deleted alternate for a path and no on-modified falls between an
\* on-deleted and the next on-created.
C18_CallbacksFollowMembership ==
    /\ [][\A p \in Paths :
             /\ StartedNow("deleted", p)
                   => (p \in DOMAIN files /\ p \notin DOMAIN files')
             /\ StartedNow("modified", p)
                   => (p \in DOMAIN files /\ p \in DOMAIN files')
             /\ StartedNow("created", p)
                   => (p \notin DOMAIN files /\ p \in DOMAIN files')
             /\ (pc \in {"check_for_deleted_files", "check_for_modified_files",
                         "check_for_new_files"})
                   => /\ (p \in DOMAIN files /\ p \notin DOMAIN files')
                            => StartedNow("deleted", p)
                      /\ (p \notin DOMAIN files /\ p \in DOMAIN files')
                            => StartedNow("created", p)]_vars
    /\ [](\A p \in awaiting : p \notin DOMAIN files)

\* One cycle started on-deleted and then on-created for the same path.
C18_Witness ==
    \E p \in DOMAIN files :
        /\ CopiesIn(<<"deleted", p>>, cb) = 1
        /\ CopiesIn(<<"created", p>>, cb) = 1

\* A step of a callback thread: a thread ends, or its exception is recorded.
CallbackStep == (alive /\ ~alive') \/ (~crashed /\ crashed')

\* C14: a callback that raises changes nothing of the loop: the position of
\* watch(), the snapshot, the pending work and the callbacks started stay as
\* they are, the loop can take its next step, and after the failure every
\* change of the snapshot still comes with a started callback.
C14_CallbackFailureIsIsolated ==
    /\ [][/\ CallbackStep
                => UNCHANGED <<cfgVars, fsVars, result, stop_watching, pc, loopVars, flux>>
          /\ (crashed /\ files' # files /\ pc \notin {"idle", "returned", "get_files"})
                => \E kind \in {"deleted", "modified", "created"}, p \in Paths :
                       StartedNow(kind, p)]_vars
    /\ [](crashed /\ Running => ENABLED Loop)

\* A callback raised after the deletion check; the modification check of the
\* same cycle ran through all its paths and started an on-modified.
C14_Witness ==
    /\ crashed /\ pc = "check_for_modified_files" /\ todo = {}
    /\ \E p \in Paths : CopiesIn(<<"modified", p>>, cb) = 1

\* C15: starting a callback is fire-and-forget: while callbacks are running
\* the loop can always take its next step, whether into the next cycle or out
\* of watch(), and neither stop() nor any step of the loop ends a callback
\* that is running.
C15_FireAndForget ==
    /\ [](alive /\ Running => ENABLED Loop)
    /\ [][(alive /\ (stop_watching' # stop_watching \/ pc' # pc)) => alive']_vars

\* watch() has returned while a callback of its last cycle is still running.
C15_Witness == pc = "returned" /\ alive /\ cb # EmptyBag

\* C16: the snapshot is changed only by the thread that runs watch(), in the
\* scan and in the three detection steps: stop() changes the flag and nothing
\* else, and a step of a callback thread leaves the snapshot as it is.
C16_SnapshotOwnedByLoop ==
    [][/\ stop_watching' # stop_watching
             => UNCHANGED <<cfgVars, thrVars, fsVars, result, pc, loopVars, flux>>
       /\ CallbackStep => files' = files
       /\ files' # files
             => \/ pc \in {"idle", "returned", "get_files"}
                \/ /\ pc \in {"check_for_deleted_files", "check_for_modified_files",
                               "check_for_new_files"}
                   /\ pc' = pc
                   /\ stop_watching' = stop_watching]_vars

\* stop() was called and a callback ended in the middle of a cycle, and the
\* snapshot is still there.
C16_Witness ==
    /\ stop_watching /\ ~alive
    /\ pc = "check_for_modified_files"
    /\ files # EmptyDict /\ cb # EmptyBag

Kinds == {"deleted", "modified", "created"}

\* C19: changes between two checks of a tracked path are coalesced.  For a
\* tracked path whose file went and came back unseen, no on-deleted and no
\* on-created is started and the deletion check passes it by; the next
\* modification check of the path starts on-modified exactly when the
\* timestamp differs from the stored one, stores it, and no second callback
\* follows in that cycle.  For a matching file that came and went between
\* two listings of the creation step, no callback is started at all and its
\* path does not enter the snapshot.
C19_ChangesAreCoalesced ==
    /\ [][\A p \in Paths :
             /\ (flux[p] = "back" \/ flux'[p] = "back")
                   => /\ ~StartedNow("deleted", p) /\ ~StartedNow("created", p)
                      /\ Running => p \in DOMAIN files'
                      /\ StartedNow("modified", p) => flux'[p] = "merged"
                      /\ (pc = "check_for_deleted_files" /\ p \in todo \ todo')
                            => (files' = files /\ cb' = cb)
             /\ (flux[p] = "back" /\ flux'[p] = "merged")
                   => /\ StartedNow("modified", p) <=> files[p] # Stat(p)
                      /\ files'[p] = Stat(p)
             /\ (flux[p] = "merged" /\ flux'[p] = "merged")
                   => \A kind \in Kinds : ~StartedNow(kind, p)
             /\ (flux[p] \in {"blip", "missed"} \/ flux'[p] \in {"blip", "missed"})
                   => /\ \A kind \in Kinds : ~StartedNow(kind, p)
                      /\ p \notin DOMAIN files']_vars
    /\ [](\A p \in Paths :
             flux[p] = "merged"
                => /\ p \in DOMAIN files
                   /\ CopiesIn(<<"deleted", p>>, cb) = 0
                   /\ CopiesIn(<<"created", p>>, cb) = 0
                   /\ CopiesIn(<<"modified", p>>, cb) <= 1)

\* A tracked file went and came back with another timestamp; the cycle that
\* followed has ended with one on-modified for its path and nothing else.
C19_Witness ==
    /\ pc = "while" /\ cycles >= 1
    /\ \E p \in Paths :
          /\ flux[p] = "merged"
          /\ cb = SetToBag({<<"modified", p>>})

\* A matching file came and went between two listings; the creation step that
\* followed has gone through its listing without starting a callback.
C19_WitnessBlip ==
    /\ pc = "check_for_new_files" /\ listing = {} /\ cb = EmptyBag
    /\ \E p \in Paths : flux[p] = "missed"
====
